---------------------------- MODULE Spec2Model ----------------------------
(***************************************************************************)
(* Model of backend/main.py of the Engineering Impact Dashboard: the       *)
(* /insights handler (cache, per-repository fetch, window filter, cap,     *)
(* concurrent per-PR enrichment, aggregation) and the pure helpers it      *)
(* calls.                                                                  *)
(*                                                                         *)
(* Representation of Python values:                                        *)
(*   - an ISO timestamp string is [k |-> "ts", t |-> seconds]; None or ""  *)
(*     is NoneTs; a string datetime.fromisoformat rejects is BadTs.        *)
(*     GitHub timestamps always carry the "Z" suffix, so offset-naive      *)
(*     strings are not part of the input domain;                           *)
(*   - a dict whose insertion order matters (authored_loc) is a sequence   *)
(*     of records in insertion order;                                      *)
(*   - an "..._hours" value is kept exactly, as the number of seconds of   *)
(*     the timedelta (hours = seconds / 3600), or Null for None.           *)
(***************************************************************************)
EXTENDS Integers, Sequences, FiniteSets, TLC

VARIABLES
    clock,   \* wall clock in seconds: time() and datetime.now(timezone.utc)
    CACHE,   \* the module-level CACHE dict: key -> [time, data]
    req,     \* the /insights invocation in progress (one coroutine frame)
    nreq,    \* number of /insights requests received so far
    faults,  \* number of upstream calls that have failed so far
    env,     \* the environment the run is explored under
    flt,     \* a call of filter_prs_by_date: arguments and result
    burn,    \* a call of detect_burnout: argument and result
    enr      \* the synchronous part of process_single_pr: inputs and result

vars == <<clock, CACHE, req, nreq, faults, env, flt, burn, enr>>

-----------------------------------------------------------------------------
(* Program constants *)

MAX_PRS_PER_REPO == 30

CACHE_TTL_SECONDS == 600

SecondsPerDay == 86400

SecondsPerHour == 3600

(* Bounds of the exploration *)

MaxFeedLen == 3

MaxContrib == 3

MaxLoc == 3

PadContrib == 17

-----------------------------------------------------------------------------
(* Generic helpers *)

Null == [k |-> "none", t |-> 0]

Num(x) == [k |-> "num", t |-> x]

EmptyDict == [x \in {} |-> 0]

Get(d, key, default) == IF key \in DOMAIN d THEN d[key] ELSE default

NoneTs == [k |-> "none", t |-> 0]

BadTs == [k |-> "bad", t |-> 0]

Ts(t) == [k |-> "ts", t |-> t]

Range(s) == {s[i] : i \in 1..Len(s)}

Max2(a, b) == IF a >= b THEN a ELSE b

Min2(a, b) == IF a <= b THEN a ELSE b

SeqsUpTo(S, n) == UNION {[1..m -> S] : m \in 0..n}

RECURSIVE SumLoc(_, _)
SumLoc(items, i) ==
    IF i > Len(items) THEN 0 ELSE items[i].loc + SumLoc(items, i + 1)

Idle == [pc |-> "idle"]

-----------------------------------------------------------------------------
(* filter_prs_by_date *)

\* datetime.fromisoformat(s.replace("Z", "+00:00")): a value, or an exception
ParseIso(s) ==
    IF s.k = "ts" THEN [ok |-> TRUE, t |-> s.t] ELSE [ok |-> FALSE, t |-> 0]

RECURSIVE FilterScan(_, _, _, _)
FilterScan(prs, cutoff_date, i, filtered) ==
    IF i > Len(prs) THEN filtered
    ELSE LET created_at == prs[i].created_at IN
         IF created_at.k = "none" THEN FilterScan(prs, cutoff_date, i + 1, filtered)
         ELSE LET pr_date == ParseIso(created_at) IN
              IF ~pr_date.ok THEN FilterScan(prs, cutoff_date, i + 1, filtered)
              ELSE IF pr_date.t >= cutoff_date
                   THEN FilterScan(prs, cutoff_date, i + 1, Append(filtered, prs[i]))
                   ELSE filtered

\* mutant: a missing or unparseable created_at ends the scan (break for continue)
RECURSIVE FilterScanBadStops(_, _, _, _)
FilterScanBadStops(prs, cutoff_date, i, filtered) ==
    IF i > Len(prs) THEN filtered
    ELSE LET pr_date == ParseIso(prs[i].created_at) IN
         IF pr_date.ok /\ pr_date.t >= cutoff_date
         THEN FilterScanBadStops(prs, cutoff_date, i + 1, Append(filtered, prs[i]))
         ELSE filtered

filter_prs_by_date_badstops(prs, days, now) ==
    FilterScanBadStops(prs, now - days * SecondsPerDay, 1, <<>>)

\* now stands for datetime.now(timezone.utc) read by the call
filter_prs_by_date(prs, days, now) ==
    FilterScan(prs, now - days * SecondsPerDay, 1, <<>>)

WindowDays == {1, 2}

FilterNow == 3 * SecondsPerDay

CreatedDomain ==
    {NoneTs, BadTs}
    \cup {Ts(FilterNow - d * SecondsPerDay - e) : d \in WindowDays, e \in {0, 1}}
    \cup {Ts(FilterNow)}

Feed(created) ==
    [i \in 1..Len(created) |->
        [number |-> Len(created) - i + 1, created_at |-> created[i]]]

InitFilter ==
    /\ flt \in {[pc |-> "args", prs |-> Feed(c), days |-> d, now |-> FilterNow,
                 out |-> <<>>] : c \in SeqsUpTo(CreatedDomain, MaxFeedLen),
                                 d \in WindowDays}

FilterCall ==
    /\ flt.pc = "args"
    /\ flt' = [flt EXCEPT !.pc = "returned",
                          !.out = filter_prs_by_date(flt.prs, flt.days, flt.now)]

-----------------------------------------------------------------------------
(* detect_burnout *)

\* sorted(items, key=work, reverse=True): stable, equal keys keep dict order
RECURSIVE InsertDesc(_, _)
InsertDesc(sorted, x) ==
    IF sorted = <<>> THEN <<x>>
    ELSE IF Head(sorted).loc >= x.loc
         THEN <<Head(sorted)>> \o InsertDesc(Tail(sorted), x)
         ELSE <<x>> \o sorted

RECURSIVE SortDesc(_, _)
SortDesc(items, i) ==
    IF i = 0 THEN <<>> ELSE InsertDesc(SortDesc(items, i - 1), items[i])

\* share = work / total_work; share >= 0.40
BurnoutShare(work, total_work) == 100 * work >= 40 * total_work

\* mutant: contributors are ranked ascending
detect_burnout_ascending(work_by_contributor) ==
    LET n == Len(work_by_contributor)
        total_work == SumLoc(work_by_contributor, 1)
        asc == [i \in 1..n |-> SortDesc(work_by_contributor, n)[n - i + 1]]
        top == SubSeq(asc, 1, Min2(Max2(1, (n * 10) \div 100), n))
        IsCandidate(c) == BurnoutShare(c.loc, total_work)
    IN IF n = 0 \/ total_work = 0 THEN <<>>
       ELSE LET hit == SelectSeq(top, IsCandidate)
            IN [i \in 1..Len(hit) |-> hit[i].user]

detect_burnout(work_by_contributor) ==
    LET n == Len(work_by_contributor)
        sorted_contributors == SortDesc(work_by_contributor, n)
        total_work == SumLoc(work_by_contributor, 1)
        top_10_percent_count == Max2(1, (n * 10) \div 100)
        top_contributors ==
            SubSeq(sorted_contributors, 1, Min2(top_10_percent_count, n))
        IsCandidate(c) == BurnoutShare(c.loc, total_work)
    IN IF n = 0 THEN <<>>
       ELSE IF total_work = 0 THEN <<>>
       ELSE LET hit == SelectSeq(top_contributors, IsCandidate)
            IN [i \in 1..Len(hit) |-> hit[i].user]

\* the dict with one contributor's authored LOC raised by d
RaiseLoc(work, u, d) ==
    [i \in 1..Len(work) |->
        IF work[i].user = u THEN [work[i] EXCEPT !.loc = @ + d] ELSE work[i]]

Workload(locs, pad, padLoc) ==
    [i \in 1..(Len(locs) + pad) |->
        [user |-> i, loc |-> IF i <= Len(locs) THEN locs[i] ELSE padLoc]]

InitBurnout ==
    /\ burn \in {[pc |-> "args", work |-> Workload(l, p, v), out |-> <<>>,
                  raised |-> 0, prev_out |-> <<>>] :
                    l \in SeqsUpTo(0..MaxLoc, MaxContrib) \ {<<>>},
                    p \in {0, PadContrib}, v \in {0, 1}}

BurnoutCall ==
    /\ burn.pc = "args"
    /\ burn' = [burn EXCEPT !.pc = "returned", !.out = detect_burnout(burn.work)]

\* the aggregation is rebuilt over a workload in which one contributor
\* authored d more lines, everything else equal
BurnoutRaise ==
    /\ burn.pc = "returned"
    /\ \E i \in 1..Min2(Len(burn.work), MaxContrib), d \in 1..MaxLoc :
         /\ burn.work[i].loc + d <= MaxLoc
         /\ LET w == RaiseLoc(burn.work, burn.work[i].user, d) IN
            burn' = [burn EXCEPT !.work = w, !.out = detect_burnout(w),
                                 !.raised = burn.work[i].user,
                                 !.prev_out = burn.out]

-----------------------------------------------------------------------------
(* Per-PR metric helpers *)

MaxReviews == 2

extract_pr_size(pr_details) ==
    LET additions == Get(pr_details, "additions", 0)
        deletions == Get(pr_details, "deletions", 0)
        changed_files == Get(pr_details, "changed_files", 0)
    IN [additions |-> additions, deletions |-> deletions,
        changed_files |-> changed_files, total_changes |-> additions + deletions]

\* a review's "user": absent, None or {} (falsy), or a dict whose "login" may
\* be missing (LoginNone)
LoginNone == "<None>"

NoUser == [truthy |-> FALSE, login |-> LoginNone]

User(login) == [truthy |-> TRUE, login |-> login]

\* {r.get("user", {}).get("login") for r in reviews if r.get("user")}
CommentedLogins(reviews) ==
    {reviews[i].user.login : i \in {j \in 1..Len(reviews) : reviews[j].user.truthy}}

\* the set behind pr["reviewer_logins"]: falsy logins are left out
ReviewerLogins(reviews) ==
    {reviews[i].user.login :
        i \in {j \in 1..Len(reviews) :
                  reviews[j].user.truthy /\ reviews[j].user.login # LoginNone}}

calculate_reviewer_metrics(pr, reviews) ==
    [reviewers_commented |-> Cardinality(CommentedLogins(reviews)),
     approvals |-> Cardinality({i \in 1..Len(reviews) : reviews[i].state = "APPROVED"})]

calculate_cycle_time(pr) ==
    IF pr.created_at.k = "none" \/ pr.merged_at.k = "none" THEN Null
    ELSE LET created == ParseIso(pr.created_at)
             merged == ParseIso(pr.merged_at)
         IN IF ~created.ok \/ ~merged.ok THEN Null
            ELSE Num(merged.t - created.t)

\* the same computation as calculate_cycle_time, under its own name
calculate_time_to_merge(pr) ==
    IF pr.created_at.k = "none" \/ pr.merged_at.k = "none" THEN Null
    ELSE LET created == ParseIso(pr.created_at)
             merged == ParseIso(pr.merged_at)
         IN IF ~created.ok \/ ~merged.ok THEN Null
            ELSE Num(merged.t - created.t)

\* min(reviews, key=parsed submitted_at): the first review with the least key
RECURSIVE FirstReview(_, _, _)
FirstReview(reviews, i, best) ==
    IF i > Len(reviews) THEN best
    ELSE FirstReview(reviews, i + 1,
                     IF reviews[i].submitted_at.t < reviews[best].submitted_at.t
                     THEN i ELSE best)

calculate_review_time_from_reviews(pr_created_at, reviews) ==
    IF reviews = <<>> THEN Null
    ELSE LET created == ParseIso(pr_created_at) IN
         IF ~created.ok THEN Null
         ELSE IF \E i \in 1..Len(reviews) : ~ParseIso(reviews[i].submitted_at).ok
              THEN Null
              ELSE LET first_review == reviews[FirstReview(reviews, 1, 1)]
                   IN Num(ParseIso(first_review.submitted_at).t - created.t)

\* mutant: the "No approvals" reason is attached only when nobody reviewed
BottleneckNoApprovalsIfUnreviewed(pr) ==
    IF pr.approvals = 0 /\ pr.reviewers_commented = 0 THEN <<"No approvals">> ELSE <<>>

BottleneckNoApprovals(pr) ==
    IF pr.approvals = 0 THEN <<"No approvals">> ELSE <<>>

detect_bottlenecks(pr) ==
    (IF pr.total_changes > 500 THEN <<"Very large PR (>500 changes)">> ELSE <<>>)
    \o (IF pr.changed_files > 20 THEN <<"Touches many files">> ELSE <<>>)
    \o (LET review_hours == pr.review_time_hours IN
        IF review_hours = Null THEN <<"No review started">>
        ELSE IF review_hours.t > 24 * SecondsPerHour
             THEN <<"First review took >24h">> ELSE <<>>)
    \o (LET cycle_hours == pr.cycle_time_hours IN
        IF cycle_hours = Null THEN <<"PR still open / not merged">>
        ELSE IF cycle_hours.t > 72 * SecondsPerHour
             THEN <<"PR took >72h to merge">> ELSE <<>>)
    \o (IF pr.reviewers_commented = 0 THEN <<"No reviewers involved">> ELSE <<>>)
    \o BottleneckNoApprovals(pr)

identify_high_impact_pr(pr) ==
    (IF pr.total_changes > 500 THEN <<"Large PR (>500 LOC changed)">> ELSE <<>>)
    \o (IF pr.changed_files > 20 THEN <<"Touches many files">> ELSE <<>>)
    \o (IF pr.reviewers_commented = 0 THEN <<"No reviewers commented">> ELSE <<>>)
    \o (IF pr.approvals = 0 THEN <<"No approvals">> ELSE <<>>)
    \o (LET cycle == pr.cycle_time_hours IN
        IF cycle # Null /\ cycle.t # 0 /\ cycle.t > 72 * SecondsPerHour
        THEN <<"Open >72h">> ELSE <<>>)
    \o (IF pr.review_time_hours = Null THEN <<"No review started">> ELSE <<>>)

\* process_single_pr after its two fetches have returned: pr.update(...) and
\* the pr[...] assignments, in the order of the code
Enrich(pr, details, reviews) ==
    LET size == extract_pr_size(details)
        reviewer_stats == calculate_reviewer_metrics(pr, reviews)
        timed ==
            [number |-> pr.number, repo |-> pr.repo, author |-> pr.author,
             title |-> pr.title, html_url |-> pr.html_url,
             created_at |-> pr.created_at, merged_at |-> pr.merged_at,
             additions |-> size.additions, deletions |-> size.deletions,
             changed_files |-> size.changed_files,
             total_changes |-> size.total_changes,
             reviewers_commented |-> reviewer_stats.reviewers_commented,
             approvals |-> reviewer_stats.approvals,
             reviewer_logins |-> ReviewerLogins(reviews),
             cycle_time_hours |-> calculate_cycle_time(pr),
             review_time_hours |->
                 calculate_review_time_from_reviews(pr.created_at, reviews),
             time_to_merge_hours |-> calculate_time_to_merge(pr)]
    IN [number |-> timed.number, repo |-> timed.repo, author |-> timed.author,
        title |-> timed.title, html_url |-> timed.html_url,
        created_at |-> timed.created_at, merged_at |-> timed.merged_at,
        additions |-> timed.additions, deletions |-> timed.deletions,
        changed_files |-> timed.changed_files,
        total_changes |-> timed.total_changes,
        reviewers_commented |-> timed.reviewers_commented,
        approvals |-> timed.approvals,
        reviewer_logins |-> timed.reviewer_logins,
        cycle_time_hours |-> timed.cycle_time_hours,
        review_time_hours |-> timed.review_time_hours,
        time_to_merge_hours |-> timed.time_to_merge_hours,
        bottlenecks |-> detect_bottlenecks(timed),
        high_impact_reasons |-> identify_high_impact_pr(timed)]

\* a pull request as the list endpoint returns it: base.repo.full_name,
\* number, user.login, title, html_url, created_at and merged_at
RawPR(repo, number, author, created_at, merged_at) ==
    [repo |-> repo, number |-> number, author |-> author,
     title |-> <<"PR", number>>, html_url |-> <<repo, "pull", number>>,
     created_at |-> created_at, merged_at |-> merged_at]

ReviewDomain ==
    {[user |-> u, state |-> s, submitted_at |-> t] :
        u \in {NoUser, User(LoginNone), User("alice"), User("bob")},
        s \in {"APPROVED", "COMMENTED"},
        t \in {Ts(24 * SecondsPerHour), Ts(24 * SecondsPerHour + 1), NoneTs}}

DetailsDomain ==
    {EmptyDict}
    \cup {[additions |-> 500, deletions |-> d, changed_files |-> c] :
             d \in {0, 1}, c \in {20, 21}}

MergedDomain == {NoneTs, Ts(72 * SecondsPerHour), Ts(72 * SecondsPerHour + 1)}

InitEnrich ==
    /\ enr \in {[pc |-> "args",
                 pr |-> RawPR("acme/widgets", 1, "carol", Ts(0), m),
                 details |-> d, reviews |-> r, out |-> Null] :
                   m \in MergedDomain, d \in DetailsDomain,
                   r \in SeqsUpTo(ReviewDomain, MaxReviews)}

EnrichCall ==
    /\ enr.pc = "args"
    /\ enr' = [enr EXCEPT !.pc = "returned",
                          !.out = Enrich(enr.pr, enr.details, enr.reviews)]

-----------------------------------------------------------------------------
(* compute_aggregations *)

RECURSIVE SumSeq(_, _)
SumSeq(values, i) ==
    IF i > Len(values) THEN 0 ELSE values[i] + SumSeq(values, i + 1)

\* a dict of counters: the keys that were incremented, each with its count
Counter(keys, hits) ==
    [k \in {x \in keys : hits[x] # {}} |-> Cardinality(hits[k])]

\* authors in order of first appearance: the key order of authored_loc
RECURSIVE AuthorsInOrder(_, _, _)
AuthorsInOrder(all_prs, i, seen) ==
    IF i > Len(all_prs) THEN seen
    ELSE AuthorsInOrder(all_prs, i + 1,
                        IF all_prs[i].author \in Range(seen) THEN seen
                        ELSE Append(seen, all_prs[i].author))

RECURSIVE InsertAsc(_, _)
InsertAsc(sorted, x) ==
    IF sorted = <<>> THEN <<x>>
    ELSE IF Head(sorted) <= x THEN <<Head(sorted)>> \o InsertAsc(Tail(sorted), x)
         ELSE <<x>> \o sorted

RECURSIVE SortAsc(_, _)
SortAsc(values, i) ==
    IF i = 0 THEN <<>> ELSE InsertAsc(SortAsc(values, i - 1), values[i])

\* statistics.median over the non-None samples, None when there is none; the
\* value is kept as twice the median, which is a whole number of seconds
median_or_none(samples) ==
    LET IsNum(v) == v.k = "num"
        present == SelectSeq(samples, IsNum)
        values == SortAsc([i \in 1..Len(present) |-> present[i].t], Len(present))
        n == Len(values)
    IN IF n = 0 THEN Null
       ELSE IF n % 2 = 1 THEN Num(2 * values[(n + 1) \div 2])
       ELSE Num(values[n \div 2] + values[n \div 2 + 1])

\* the summary without its "visibility" part, which get_insights does not
\* put in the response
compute_aggregations(all_prs) ==
    LET idx == 1..Len(all_prs)
        authors == {all_prs[i].author : i \in idx}
        repos == {all_prs[i].repo : i \in idx}
        reviewers == UNION {all_prs[i].reviewer_logins : i \in idx}
        AuthoredBy(u) == {i \in idx : all_prs[i].author = u}
        ReviewedBy(u) == {i \in idx : u \in all_prs[i].reviewer_logins}
        AuthoredLoc(u) ==
            SumSeq([i \in idx |-> IF i \in AuthoredBy(u)
                                  THEN all_prs[i].additions ELSE 0], 1)
        ReviewedLoc(u) ==
            SumSeq([i \in idx |-> IF i \in ReviewedBy(u)
                                  THEN all_prs[i].total_changes ELSE 0], 1)
        order == AuthorsInOrder(all_prs, 1, <<>>)
        authored_loc ==
            [i \in 1..Len(order) |-> [user |-> order[i], loc |-> AuthoredLoc(order[i])]]
        HasBottleneck(pr) == pr.bottlenecks # <<>>
        bottleneck_prs ==
            LET hit == SelectSeq(all_prs, HasBottleneck) IN
            [i \in 1..Len(hit) |->
                [title |-> hit[i].title, author |-> hit[i].author,
                 repo |-> hit[i].repo, url |-> hit[i].html_url,
                 bottlenecks |-> hit[i].bottlenecks]]
        per_contributor ==
            [u \in authors \cup reviewers |->
                [opened_prs |-> Cardinality(AuthoredBy(u)),
                 reviewed_prs |-> Cardinality(ReviewedBy(u)),
                 authored_loc |-> AuthoredLoc(u),
                 reviewed_loc |-> ReviewedLoc(u)]]
    IN [impact |->
            [prs_merged_by_contributor |->
                 Counter(authors,
                         [u \in authors |->
                             {i \in AuthoredBy(u) : all_prs[i].merged_at.k # "none"}]),
             reviews_by_contributor |->
                 Counter(reviewers, [u \in reviewers |-> ReviewedBy(u)]),
             high_impact_per_repo |->
                 Counter(repos,
                         [r \in repos |->
                             {i \in idx : /\ all_prs[i].repo = r
                                          /\ all_prs[i].high_impact_reasons # <<>>}])],
        delivery |->
            [median_review_time_hours |->
                 median_or_none([i \in idx |-> all_prs[i].review_time_hours]),
             median_merge_time_hours |->
                 median_or_none([i \in idx |-> all_prs[i].cycle_time_hours]),
             bottleneck_prs |-> bottleneck_prs],
        workload |->
            [per_contributor |-> per_contributor,
             burnout_risk |-> detect_burnout(authored_loc)]]

\* the response body get_insights builds from the summary
InsightsResult(all_prs) ==
    LET summary == compute_aggregations(all_prs) IN
    [contributors |-> summary.impact.prs_merged_by_contributor,
     reviews_by_contributor |-> summary.impact.reviews_by_contributor,
     delivery |-> summary.delivery,
     high_impact |-> summary.impact.high_impact_per_repo,
     bottlenecks |-> summary.delivery.bottleneck_prs,
     workload |-> summary.workload]

-----------------------------------------------------------------------------
(* Repository identifiers and the upstream API *)

MaxRequests == 2

MaxFaults == 1

BigFeedLen == 32

BigRepo == "big/repo"

\* repo.split("/")
RepoParts(repo) ==
    CASE repo = "acme/widgets" -> <<"acme", "widgets">>
      [] repo = "beta/api" -> <<"beta", "api">>
      [] repo = "big/repo" -> <<"big", "repo">>
      [] repo = "a/b/c" -> <<"a", "b", "c">>
      [] repo = "invalidrepo" -> <<"invalidrepo">>

\* "/" in repo
HasSlash(repo) == Len(RepoParts(repo)) > 1

\* position of the identifier in Python's string order
StrRank(repo) ==
    CASE repo = "a/b/c" -> 1
      [] repo = "acme/widgets" -> 2
      [] repo = "beta/api" -> 3
      [] repo = "big/repo" -> 4
      [] repo = "invalidrepo" -> 5

RECURSIVE InsertStr(_, _)
InsertStr(sorted, x) ==
    IF sorted = <<>> THEN <<x>>
    ELSE IF StrRank(Head(sorted)) <= StrRank(x)
         THEN <<Head(sorted)>> \o InsertStr(Tail(sorted), x)
         ELSE <<x>> \o sorted

RECURSIVE SortedRepos(_, _)
SortedRepos(repos, i) ==
    IF i = 0 THEN <<>> ELSE InsertStr(SortedRepos(repos, i - 1), repos[i])

make_cache_key(repos, days) ==
    [repos |-> SortedRepos(repos, Len(repos)), days |-> days]

\* The PR list the API serves for a repository (newest first), and the detail
\* and review resources of each PR. acme/widgets #2 leaves a one-day window
\* when the clock reaches CACHE_TTL_SECONDS.
PRList(repo, n) ==
    CASE repo = "acme/widgets" ->
            <<RawPR(repo, 4, "alice", Ts(-100), NoneTs),
              RawPR(repo, 3, "bob", BadTs, NoneTs),
              RawPR(repo, 2, "alice", Ts(CACHE_TTL_SECONDS - 1 - SecondsPerDay),
                    Ts(-SecondsPerHour)),
              RawPR(repo, 1, "bob", Ts(-3 * SecondsPerDay), NoneTs)>>
      [] repo = "beta/api" ->
            <<RawPR(repo, 1, "bob", Ts(-2 * SecondsPerHour), Ts(-SecondsPerHour))>>
      [] repo = "big/repo" ->
            [i \in 1..n |->
                RawPR(repo, n - i + 1, "carol",
                      IF i = n THEN Ts(-3 * SecondsPerDay) ELSE Ts(-i), NoneTs)]

PRDetails(repo, number) ==
    [additions |-> 300 * number, deletions |-> number, changed_files |-> 7 * number]

PRReviews(repo, number) ==
    IF number % 2 = 1
    THEN <<[user |-> User("alice"), state |-> "COMMENTED", submitted_at |-> Ts(-30)]>>
    ELSE IF number % 4 = 0
    THEN <<[user |-> User("bob"), state |-> "APPROVED", submitted_at |-> Ts(-60)]>>
    ELSE <<>>

\* sizes of the PR list the API may serve for a repository
FeedSizes(repo) ==
    IF repo = BigRepo THEN (MAX_PRS_PER_REPO - 1)..BigFeedLen ELSE {0}

ListOutcomes == {"ok", "raise", "unparseable", "notlist"}

SubOutcomes == {"ok", "raise", "non200", "unparseable"}

-----------------------------------------------------------------------------
(* fetch helpers: what each returns for an outcome of its session.get *)

\* fetch_github_prs: [] when the body is not JSON or not a list; an exception
\* of session.get itself is not caught
fetch_github_prs(repo, outcome, n) ==
    CASE outcome = "raise" -> [raised |-> TRUE, value |-> <<>>]
      [] outcome = "unparseable" -> [raised |-> FALSE, value |-> <<>>]
      [] outcome = "notlist" -> [raised |-> FALSE, value |-> <<>>]
      [] outcome = "ok" -> [raised |-> FALSE, value |-> PRList(repo, n)]

fetch_pr_details(repo, pr_number, outcome) ==
    CASE outcome = "raise" -> [raised |-> TRUE, value |-> EmptyDict]
      [] outcome = "non200" -> [raised |-> FALSE, value |-> EmptyDict]
      [] outcome = "unparseable" -> [raised |-> FALSE, value |-> EmptyDict]
      [] outcome = "ok" -> [raised |-> FALSE, value |-> PRDetails(repo, pr_number)]

fetch_pr_reviews(repo, pr_number, outcome) ==
    CASE outcome = "raise" -> [raised |-> TRUE, value |-> <<>>]
      [] outcome = "non200" -> [raised |-> FALSE, value |-> <<>>]
      [] outcome = "unparseable" -> [raised |-> FALSE, value |-> <<>>]
      [] outcome = "ok" -> [raised |-> FALSE, value |-> PRReviews(repo, pr_number)]

-----------------------------------------------------------------------------
(* get_insights *)

NoEntry == [time |-> 0, data |-> EmptyDict]

\* the frame of a get_insights call at its entry
NewRequest(repos, days, now, cache) ==
    LET key == make_cache_key(repos, days) IN
    [pc |-> "start", repos |-> repos, days |-> days, now |-> now, key |-> key,
     hit |-> FALSE,
     had_entry |-> key \in DOMAIN cache,
     entry |-> IF key \in DOMAIN cache THEN cache[key] ELSE NoEntry,
     idx |-> 0, all_prs |-> <<>>, tasks |-> <<>>, order |-> <<>>,
     calls |-> 0, sub_calls |-> 0, recent |-> <<>>, retained |-> <<>>, enriched |-> 0,
     cause |-> "", response |-> EmptyDict]

\* mutant: the cap keeps one PR too many
CapOffByOne(recent_prs) ==
    SubSeq(recent_prs, 1, Min2(Len(recent_prs), MAX_PRS_PER_REPO + 1))

\* recent_prs[:MAX_PRS_PER_REPO]
Cap(recent_prs) ==
    SubSeq(recent_prs, 1, Min2(Len(recent_prs), MAX_PRS_PER_REPO))

\* mutant: results are collected as the tasks complete
GatherByCompletion(tasks, order) == [i \in 1..Len(tasks) |-> tasks[order[i]].out]

\* await asyncio.gather(*tasks): the results in the order of the tasks
Gather(tasks, order) == [i \in 1..Len(tasks) |-> tasks[i].out]

\* compute_aggregations, the response and the frame's final state
Finish(r) ==
    [r EXCEPT !.pc = "responded", !.response = InsightsResult(r.all_prs)]

\* the for loop over request.repos from position i up to its next await
RECURSIVE LoopFrom(_, _)
LoopFrom(r, i) ==
    IF i > Len(r.repos) THEN Finish(r)
    ELSE IF ~HasSlash(r.repos[i]) THEN LoopFrom(r, i + 1)
    ELSE IF Len(RepoParts(r.repos[i])) # 2
         THEN [r EXCEPT !.pc = "failed", !.cause = "unpack", !.idx = i]
         ELSE [r EXCEPT !.pc = "await_list", !.idx = i, !.calls = @ + 1]

\* CACHE[key] = {"time": now, "data": result}, reached on a computed response
Store(r, cache) ==
    IF r.pc = "responded" /\ ~r.hit
    THEN [k \in DOMAIN cache \cup {r.key} |->
            IF k = r.key THEN [time |-> r.now, data |-> r.response] ELSE cache[k]]
    ELSE cache

\* request.repos of the requests explored
RequestLists ==
    {<<>>, <<"acme/widgets">>, <<"beta/api">>, <<"invalidrepo">>,
     <<"acme/widgets", "beta/api">>, <<"beta/api", "acme/widgets">>,
     <<"beta/api", "beta/api">>,
     <<"beta/api", "invalidrepo", "acme/widgets">>,
     <<"invalidrepo", "beta/api">>, <<"beta/api", "a/b/c">>}

CacheRequestLists ==
    {<<"acme/widgets">>, <<"acme/widgets", "beta/api">>,
     <<"beta/api", "acme/widgets">>, <<"invalidrepo", "beta/api">>}

BigRequestLists == {<<BigRepo>>, <<"invalidrepo", BigRepo>>}

\* time passes; the clock is read at the entry of get_insights and by the
\* window filter after the PR list has arrived
Tick ==
    /\ req.pc \in {"idle", "responded", "failed", "await_list"}
    /\ \E c \in env.instants : c > clock /\ clock' = c
    /\ UNCHANGED <<CACHE, req, nreq, faults, env>>

\* POST /insights: the cache check, then the loop up to the first PR-list call
Receive(repos, days) ==
    /\ req.pc \in {"idle", "responded", "failed"}
    /\ nreq < env.maxRequests
    /\ nreq' = nreq + 1
    /\ LET r == NewRequest(repos, days, clock, CACHE) IN
       IF r.had_entry /\ r.now - r.entry.time < CACHE_TTL_SECONDS
       THEN req' = [r EXCEPT !.pc = "responded", !.hit = TRUE,
                             !.response = r.entry.data]
       ELSE req' = LoopFrom(r, 1)
    /\ CACHE' = Store(req', CACHE)
    /\ UNCHANGED <<clock, faults, env>>

\* the PR-list call of the current repository returns or raises; the list is
\* filtered and capped and one enrichment task per retained PR is started
ListResponse(outcome) ==
    /\ req.pc = "await_list"
    /\ outcome # "ok" => faults < env.maxFaults
    /\ faults' = IF outcome = "ok" THEN faults ELSE faults + 1
    /\ \E n \in FeedSizes(req.repos[req.idx]) :
       LET repo == req.repos[req.idx]
           got == fetch_github_prs(repo, outcome, n)
           recent_prs == filter_prs_by_date(got.value, req.days, clock)
           capped == Cap(recent_prs)
           r == [req EXCEPT
                   !.recent = [i \in 1..Len(recent_prs) |-> recent_prs[i].number],
                   !.retained = Append(@, [repo |-> repo,
                       numbers |-> [i \in 1..Len(capped) |-> capped[i].number]]),
                   !.order = <<>>,
                   !.tasks = [i \in 1..Len(capped) |->
                                [pr |-> capped[i], d_done |-> FALSE, r_done |-> FALSE,
                                 details |-> EmptyDict, reviews |-> <<>>,
                                 done |-> FALSE, out |-> EmptyDict]],
                   !.calls = @ + 2 * Len(capped),
                   !.sub_calls = 2 * Len(capped)]
       IN IF got.raised
          THEN req' = [req EXCEPT !.pc = "failed", !.cause = "fetch_github_prs"]
          ELSE IF capped = <<>>
          THEN req' = LoopFrom(r, req.idx + 1)
          ELSE req' = [r EXCEPT !.pc = "await_prs"]
    /\ CACHE' = Store(req', CACHE)
    /\ UNCHANGED <<clock, nreq, env>>

\* task i has both results: the rest of process_single_pr runs
Resume(tasks, i) ==
    IF tasks[i].d_done /\ tasks[i].r_done
    THEN [tasks EXCEPT ![i].done = TRUE,
                       ![i].out = Enrich(tasks[i].pr, tasks[i].details,
                                         tasks[i].reviews)]
    ELSE tasks

\* the frame after a sub-resource call of task i has returned
AfterSubFetch(r, tasks, i) ==
    LET resumed == Resume(tasks, i)
        order == IF resumed[i].done THEN Append(r.order, i) ELSE r.order
        r1 == [r EXCEPT !.tasks = resumed, !.order = order,
                        !.enriched = IF resumed[i].done THEN @ + 1 ELSE @]
    IN IF \A j \in 1..Len(resumed) : resumed[j].done
       THEN LoopFrom([r1 EXCEPT !.all_prs = @ \o Gather(resumed, order)], r.idx + 1)
       ELSE r1

\* under env.fifo the responses arrive in the order the calls were issued
MayAnswer(i, kind) ==
    env.fifo =>
        /\ \A j \in 1..(i - 1) : req.tasks[j].d_done /\ req.tasks[j].r_done
        /\ kind = "reviews" => req.tasks[i].d_done

DetailResponse(i, outcome) ==
    /\ req.pc = "await_prs"
    /\ i \in 1..Len(req.tasks) /\ ~req.tasks[i].d_done
    /\ MayAnswer(i, "details")
    /\ outcome # "ok" => faults < env.maxFaults
    /\ faults' = IF outcome = "ok" THEN faults ELSE faults + 1
    /\ LET pr == req.tasks[i].pr
           got == fetch_pr_details(pr.repo, pr.number, outcome)
       IN IF got.raised
          THEN req' = [req EXCEPT !.pc = "failed", !.cause = "fetch_pr_details"]
          ELSE req' = AfterSubFetch(req,
                        [req.tasks EXCEPT ![i].d_done = TRUE,
                                          ![i].details = got.value], i)
    /\ CACHE' = Store(req', CACHE)
    /\ UNCHANGED <<clock, nreq, env>>

ReviewResponse(i, outcome) ==
    /\ req.pc = "await_prs"
    /\ i \in 1..Len(req.tasks) /\ ~req.tasks[i].r_done
    /\ MayAnswer(i, "reviews")
    /\ outcome # "ok" => faults < env.maxFaults
    /\ faults' = IF outcome = "ok" THEN faults ELSE faults + 1
    /\ LET pr == req.tasks[i].pr
           got == fetch_pr_reviews(pr.repo, pr.number, outcome)
       IN IF got.raised
          THEN req' = [req EXCEPT !.pc = "failed", !.cause = "fetch_pr_reviews"]
          ELSE req' = AfterSubFetch(req,
                        [req.tasks EXCEPT ![i].r_done = TRUE,
                                          ![i].reviews = got.value], i)
    /\ CACHE' = Store(req', CACHE)
    /\ UNCHANGED <<clock, nreq, env>>

MaxTasks == Max2(MAX_PRS_PER_REPO, BigFeedLen)

helperVars == <<flt, burn, enr>>

HelpersUnused == flt = Idle /\ burn = Idle /\ enr = Idle

Next ==
    \/ Tick /\ UNCHANGED helperVars
    \/ \E repos \in env.lists, days \in WindowDays :
         Receive(repos, days) /\ UNCHANGED helperVars
    \/ \E outcome \in ListOutcomes :
         ListResponse(outcome) /\ UNCHANGED helperVars
    \/ \E i \in 1..MaxTasks, outcome \in SubOutcomes :
         DetailResponse(i, outcome) /\ UNCHANGED helperVars
    \/ \E i \in 1..MaxTasks, outcome \in SubOutcomes :
         ReviewResponse(i, outcome) /\ UNCHANGED helperVars

PipelineStart ==
    clock = 0 /\ CACHE = EmptyDict /\ req = Idle /\ nreq = 0 /\ faults = 0

\* one request, with up to MaxFaults failing upstream calls and the
\* sub-resource responses arriving in any order
Init ==
    /\ PipelineStart /\ HelpersUnused
    /\ env = [lists |-> RequestLists, fifo |-> FALSE, maxRequests |-> 1,
              maxFaults |-> MaxFaults,
              instants |-> {CACHE_TTL_SECONDS - 1, CACHE_TTL_SECONDS}]

Spec == Init /\ [][Next]_vars

\* a sequence of requests against the cache, responses in issue order
InitCache ==
    /\ PipelineStart /\ HelpersUnused
    /\ env = [lists |-> CacheRequestLists, fifo |-> TRUE,
              maxRequests |-> MaxRequests, maxFaults |-> MaxFaults,
              instants |-> {CACHE_TTL_SECONDS - 1, CACHE_TTL_SECONDS,
                            2 * CACHE_TTL_SECONDS}]

SpecCache == InitCache /\ [][Next]_vars

\* one request for a repository with more in-window PRs than the cap; no
\* upstream failures, responses in issue order
InitCap ==
    /\ PipelineStart /\ HelpersUnused
    /\ env = [lists |-> BigRequestLists, fifo |-> TRUE, maxRequests |-> 1,
              maxFaults |-> 0, instants |-> {CACHE_TTL_SECONDS}]

SpecCap == InitCap /\ [][Next]_vars

-----------------------------------------------------------------------------
(* Claims about get_insights *)

Terminal == req.pc \in {"responded", "failed"}

\* C1: a request whose key has an entry younger than the TTL at its start
\* returns that entry's data and issues no outbound call; a request whose
\* key has an entry of TTL age or older runs the pipeline, returns a
\* response and overwrites the entry with it.
C1_CacheHitOrRecompute ==
    Terminal =>
        LET fresh == req.had_entry /\ req.now - req.entry.time < CACHE_TTL_SECONDS
        IN /\ fresh => /\ req.pc = "responded"
                       /\ req.response = req.entry.data
                       /\ req.calls = 0
           /\ (req.had_entry /\ ~fresh) =>
                /\ req.pc = "responded"
                /\ req.key \in DOMAIN CACHE
                /\ CACHE[req.key] = [time |-> req.now, data |-> req.response]

\* C2: whatever the PR-list call of a repository does, fetch_github_prs
\* returns a list and get_insights goes on: no request fails because of it.
C2_FetcherNeverRaises ==
    req.pc = "failed" => req.cause # "fetch_github_prs"

\* C3: a detail or review call that times out or fails degrades to an empty
\* result for that call only: no request fails because of it.
C3_SubFetchFailureDegrades ==
    req.pc = "failed" => req.cause \notin {"fetch_pr_details", "fetch_pr_reviews"}

WellFormed(repo) == Len(RepoParts(repo)) = 2

\* C4: every identifier that is not an "owner/name" pair is skipped and the
\* well-formed ones are processed: a request that no upstream call brought
\* down returns a response, having fetched exactly its well-formed entries,
\* in order.
C4_MalformedReposSkipped ==
    (Terminal /\ ~req.hit
       /\ req.cause \notin {"fetch_github_prs", "fetch_pr_details", "fetch_pr_reviews"})
    => /\ req.pc = "responded"
       /\ [i \in 1..Len(req.retained) |-> req.retained[i].repo]
            = SelectSeq(req.repos, WellFormed)

FirstN(seq, n) == SubSeq(seq, 1, Min2(Len(seq), n))

RECURSIVE RetainedCount(_, _)
RetainedCount(retained, i) ==
    IF i > Len(retained) THEN 0
    ELSE Len(retained[i].numbers) + RetainedCount(retained, i + 1)

\* C8: per repository at most MAX_PRS_PER_REPO PRs are enriched, the first
\* ones of the window-filtered list; at most 2 * MAX_PRS_PER_REPO detail
\* and review calls are issued for it; PRs beyond the cap reach no aggregate.
C8_CapBoundsEnrichment ==
    req.pc \in {"await_prs", "responded"} =>
        /\ Len(req.tasks) <= MAX_PRS_PER_REPO
        /\ [i \in 1..Len(req.tasks) |-> req.tasks[i].pr.number]
             = FirstN(req.recent, MAX_PRS_PER_REPO)
        /\ req.sub_calls = 2 * Len(req.tasks)
        /\ req.sub_calls <= 2 * MAX_PRS_PER_REPO
        /\ \A i \in 1..Len(req.retained) :
             Len(req.retained[i].numbers) <= MAX_PRS_PER_REPO
        /\ (req.pc = "responded" /\ ~req.hit) =>
             LET n == Len(req.all_prs) IN
             /\ n = RetainedCount(req.retained, 1)
             /\ [i \in 1..Len(req.tasks) |->
                    req.all_prs[n - Len(req.tasks) + i].number]
                  = FirstN(req.recent, MAX_PRS_PER_REPO)
             /\ \A u \in DOMAIN req.response.workload.per_contributor :
                  req.response.workload.per_contributor[u].opened_prs <= n
             /\ \A k \in 1..Len(req.response.bottlenecks) :
                  \E i \in 1..n :
                     /\ req.all_prs[i].html_url = req.response.bottlenecks[k].url
                     /\ req.all_prs[i].repo = req.response.bottlenecks[k].repo

\* more PRs in the window than the cap, and the response was computed
C8_Witness ==
    /\ req.pc = "responded" /\ ~req.hit
    /\ Len(req.recent) > MAX_PRS_PER_REPO
    /\ Len(req.all_prs) = MAX_PRS_PER_REPO

RECURSIVE Flatten(_, _)
Flatten(retained, i) ==
    IF i > Len(retained) THEN <<>>
    ELSE [j \in 1..Len(retained[i].numbers) |->
            <<retained[i].repo, retained[i].numbers[j]>>]
         \o Flatten(retained, i + 1)

\* C9: the list handed to compute_aggregations holds every retained PR once,
\* repository by repository in request order and newest first within a
\* repository, whatever the order in which the enrichment tasks completed;
\* while a task is pending nothing has been aggregated.
C9_GatherKeepsOrder ==
    /\ (req.pc = "responded" /\ ~req.hit) =>
         /\ [i \in 1..Len(req.all_prs) |->
                <<req.all_prs[i].repo, req.all_prs[i].number>>]
              = Flatten(req.retained, 1)
         /\ [i \in 1..Len(req.retained) |-> req.retained[i].repo]
              = SelectSeq(req.repos, HasSlash)
         /\ req.enriched = Len(req.all_prs)
         /\ \A i \in 1..Len(req.tasks) : req.tasks[i].done
         /\ req.response = InsightsResult(req.all_prs)
    /\ req.pc = "await_prs" =>
         /\ \E i \in 1..Len(req.tasks) : ~req.tasks[i].done
         /\ req.response = EmptyDict

\* two repositories; the second task of the last one completed before the first
C9_Witness ==
    /\ req.pc = "responded" /\ ~req.hit
    /\ Len(req.retained) = 2 /\ Len(req.all_prs) = 3
    /\ req.order = <<2, 1>>

-----------------------------------------------------------------------------
(* Specifications of the pure helpers *)

PipelineUnused ==
    /\ clock = 0 /\ CACHE = EmptyDict /\ req = Idle /\ nreq = 0 /\ faults = 0
    /\ env = "helpers"

pipelineVars == <<clock, CACHE, req, nreq, faults, env>>

InitFilterSpec == PipelineUnused /\ InitFilter /\ burn = Idle /\ enr = Idle

NextFilter == FilterCall /\ UNCHANGED <<pipelineVars, burn, enr>>

SpecFilter == InitFilterSpec /\ [][NextFilter]_vars

InitBurnoutSpec == PipelineUnused /\ InitBurnout /\ flt = Idle /\ enr = Idle

NextBurnout ==
    \/ BurnoutCall /\ UNCHANGED <<pipelineVars, flt, enr>>
    \/ BurnoutRaise /\ UNCHANGED <<pipelineVars, flt, enr>>

SpecBurnout == InitBurnoutSpec /\ [][NextBurnout]_vars

InitEnrichSpec == PipelineUnused /\ InitEnrich /\ flt = Idle /\ burn = Idle

NextEnrich == EnrichCall /\ UNCHANGED <<pipelineVars, flt, burn>>

SpecEnrich == InitEnrichSpec /\ [][NextEnrich]_vars

-----------------------------------------------------------------------------
(* Claims about the pure helpers *)

InWindow(pr, cutoff) == pr.created_at.k = "ts" /\ pr.created_at.t >= cutoff

TooOld(pr, cutoff) == pr.created_at.k = "ts" /\ pr.created_at.t < cutoff

\* the PRs with a parseable timestamp come newest first
NewestFirst(prs) ==
    \A i, j \in 1..Len(prs) :
        (i < j /\ prs[i].created_at.k = "ts" /\ prs[j].created_at.k = "ts")
            => prs[i].created_at.t >= prs[j].created_at.t

\* index of the first PR with a parseable timestamp older than the cutoff
StopIndex(prs, cutoff) ==
    CHOOSE i \in 1..(Len(prs) + 1) :
        /\ i = Len(prs) + 1 \/ TooOld(prs[i], cutoff)
        /\ \A j \in 1..(i - 1) : ~TooOld(prs[j], cutoff)

InsertAfter(prs, pos, x) ==
    SubSeq(prs, 1, pos) \o <<x>> \o SubSeq(prs, pos + 1, Len(prs))

OlderPRs(cutoff) ==
    {pr \in {[number |-> 99, created_at |-> c] : c \in CreatedDomain} :
        TooOld(pr, cutoff)}

\* C5: filter_prs_by_date returns, in feed order, the PRs with a parseable
\* created_at >= now - days that come before the first PR with a parseable
\* created_at older than the cutoff; PRs with a missing or unparseable
\* created_at are left out without ending the scan. On a newest-first feed
\* that is every in-window PR of the feed, and a PR older than the cutoff
\* inserted or appended after a kept PR (the feed staying newest-first)
\* leaves the result unchanged.
C5_FilterKeepsMaximalPrefix ==
    flt.pc = "returned" =>
        LET cutoff == flt.now - flt.days * SecondsPerDay
            Kept(pr) == InWindow(pr, cutoff)
            stop == StopIndex(flt.prs, cutoff)
        IN /\ flt.out = SelectSeq(SubSeq(flt.prs, 1, stop - 1), Kept)
           /\ NewestFirst(flt.prs) =>
                /\ flt.out = SelectSeq(flt.prs, Kept)
                /\ \A pos \in 1..Len(flt.prs), old \in OlderPRs(cutoff) :
                     LET longer == InsertAfter(flt.prs, pos, old) IN
                     ((\E k \in 1..pos : Kept(flt.prs[k])) /\ NewestFirst(longer))
                        => filter_prs_by_date(longer, flt.days, flt.now) = flt.out

\* a newest-first feed: a kept PR, a PR without a usable timestamp, a PR
\* older than the cutoff; only the first is returned
C5_Witness ==
    /\ flt.pc = "returned" /\ Len(flt.prs) = 3 /\ NewestFirst(flt.prs)
    /\ InWindow(flt.prs[1], flt.now - flt.days * SecondsPerDay)
    /\ flt.prs[2].created_at.k \in {"none", "bad"}
    /\ TooOld(flt.prs[3], flt.now - flt.days * SecondsPerDay)
    /\ flt.out = <<flt.prs[1]>>

\* contributor i ranks before contributor j: more authored LOC, or as many
\* and earlier in the dict
RanksBefore(work, i, j) ==
    \/ work[i].loc > work[j].loc
    \/ work[i].loc = work[j].loc /\ i < j

TopSlice(work) ==
    {j \in 1..Len(work) :
        Cardinality({i \in 1..Len(work) : RanksBefore(work, i, j)})
            < Max2(1, Len(work) \div 10)}

DominantTop(work) ==
    {work[j].user : j \in {k \in TopSlice(work) :
                              10 * work[k].loc >= 4 * SumLoc(work, 1)}}

\* C6: whenever the total authored LOC is positive, detect_burnout returns
\* exactly the contributors of the top max(1, floor(n / 10)) by authored LOC
\* descending whose LOC is at least 40% of the total; and a contributor it
\* returns is still returned after only that contributor's LOC is raised.
C6_BurnoutMonotone ==
    burn.pc = "returned" =>
        /\ SumLoc(burn.work, 1) > 0 => Range(burn.out) = DominantTop(burn.work)
        /\ \A u \in Range(burn.out) : \A d \in 1..MaxLoc :
             u \in Range(detect_burnout(RaiseLoc(burn.work, u, d)))
        /\ (burn.raised # 0 /\ burn.raised \in Range(burn.prev_out))
             => burn.raised \in Range(burn.out)

\* twenty or more contributors, so the top slice holds two: a flagged
\* contributor's LOC was raised and both of the slice are flagged afterwards
C6_Witness ==
    /\ burn.pc = "returned" /\ burn.raised # 0
    /\ Len(burn.work) >= 20 /\ Len(burn.out) = 2
    /\ burn.raised \in Range(burn.prev_out)
    /\ burn.raised \in Range(burn.out)


BottleneckReasons ==
    {"Very large PR (>500 changes)", "Touches many files", "No review started",
     "First review took >24h", "PR still open / not merged",
     "PR took >72h to merge", "No reviewers involved", "No approvals"}

ReasonHolds(reason, pr) ==
    CASE reason = "Very large PR (>500 changes)" -> pr.total_changes > 500
      [] reason = "Touches many files" -> pr.changed_files > 20
      [] reason = "No review started" -> pr.review_time_hours.k = "none"
      [] reason = "First review took >24h" ->
            pr.review_time_hours.k = "num"
            /\ pr.review_time_hours.t > 24 * SecondsPerHour
      [] reason = "PR still open / not merged" -> pr.cycle_time_hours.k = "none"
      [] reason = "PR took >72h to merge" ->
            pr.cycle_time_hours.k = "num"
            /\ pr.cycle_time_hours.t > 72 * SecondsPerHour
      [] reason = "No reviewers involved" -> pr.reviewers_commented = 0
      [] reason = "No approvals" -> pr.approvals = 0

\* C7: the bottleneck list of an enriched PR holds exactly the reasons whose
\* condition holds of the PR's field values, each once.
C7_BottlenecksExact ==
    enr.pc = "returned" =>
        LET pr == enr.out IN
        /\ Range(pr.bottlenecks) = {r \in BottleneckReasons : ReasonHolds(r, pr)}
        /\ Len(pr.bottlenecks) = Cardinality(Range(pr.bottlenecks))

\* reviewers commented and a review was timed, yet nobody approved:
\* "No approvals" without "No reviewers involved" and "No review started"
C7_Witness ==
    /\ enr.pc = "returned"
    /\ enr.out.reviewers_commented > 0 /\ enr.out.approvals = 0
    /\ enr.out.review_time_hours.k = "num"
    /\ "No approvals" \in Range(enr.out.bottlenecks)
    /\ "No reviewers involved" \notin Range(enr.out.bottlenecks)
    /\ "No review started" \notin Range(enr.out.bottlenecks)

\* distinct non-null reviewer logins across all review entries
DistinctLogins(reviews) ==
    {l \in {"alice", "bob"} :
        \E i \in 1..Len(reviews) :
            reviews[i].user.truthy /\ reviews[i].user.login = l}

\* C10: reviewers_commented is the number of distinct non-null reviewer
\* logins of the review list, and so the size of reviewer_logins.
C10_ReviewersCommentedCountsLogins ==
    enr.pc = "returned" =>
        /\ enr.out.reviewers_commented = Cardinality(DistinctLogins(enr.reviews))
        /\ enr.out.reviewers_commented = Cardinality(enr.out.reviewer_logins)

=============================================================================
